---- MODULE Spec2Model ----
(***************************************************************************)
(* Black-Scholes option pricer (src/src/black_scholes.py), the 10x10 grid  *)
(* evaluator (src/src/heatmap.py), the heatmap generator                   *)
(* (src/src/visualization.py) and the part of the Streamlit script that   *)
(* drives them (src/app.py).                                               *)
(*                                                                         *)
(* Real numbers are fixed-point integers with four decimals: the integer n *)
(* stands for n / Scale.  A float of the program is a record [k, v]:       *)
(* k = "fin" with v the scaled value, "inf" with v the sign, or "nan".     *)
(* The same record shape carries the outcome of a call: k is then the name *)
(* of the exception that left the call ("ValueError", ...).                *)
(***************************************************************************)
EXTENDS Integers, Sequences, FiniteSets, TLC

Scale == 10 ^ 4

Abs(x) == IF x < 0 THEN -x ELSE x
Sgn(x) == IF x < 0 THEN -1 ELSE IF x > 0 THEN 1 ELSE 0
Max(a, b) == IF a >= b THEN a ELSE b
Min(a, b) == IF a <= b THEN a ELSE b

(***************************************************************************)
(* Fixed-point product and quotient, rounded toward zero, computed in      *)
(* pieces so that no intermediate leaves 32 bits.                          *)
(***************************************************************************)
MulAbs(big, small) ==
    (big \div Scale) * small + ((big % Scale) * small) \div Scale

Mul(a, b) ==
    Sgn(a) * Sgn(b) * MulAbs(Max(Abs(a), Abs(b)), Min(Abs(a), Abs(b)))

RECURSIVE DivDigits(_, _, _)
DivDigits(r, b, n) ==
    IF n = 0 THEN 0
    ELSE ((r * 10) \div b) * (10 ^ (n - 1)) + DivDigits((r * 10) % b, b, n - 1)

Div(a, b) ==
    Sgn(a) * Sgn(b)
      * ((Abs(a) \div Abs(b)) * Scale + DivDigits(Abs(a) % Abs(b), Abs(b), 4))

(***************************************************************************)
(* x ** 0.5 / np.sqrt(x) for x >= 0: the integer square root of x * Scale. *)
(***************************************************************************)
RECURSIVE SqrtSearch(_, _, _)
SqrtSearch(n, lo, hi) ==
    IF lo >= hi THEN lo
    ELSE LET mid == (lo + hi + 1) \div 2
         IN  IF mid * mid <= n THEN SqrtSearch(n, mid, hi)
                               ELSE SqrtSearch(n, lo, mid - 1)

Sqrt(x) == SqrtSearch(x * Scale, 0, 46340)

(***************************************************************************)
(* math.log(x) for x > 0: x is brought into [0.75, 1.5) by halving or      *)
(* doubling (ln 2 = 0.6931), then ln x = 2 atanh((x - 1) / (x + 1)).       *)
(***************************************************************************)
Ln2 == 6931

LnUnit(x) ==
    LET z  == Div(x - Scale, x + Scale)
        z2 == Mul(z, z)
        z3 == Mul(z2, z)
        z5 == Mul(z3, z2)
        z7 == Mul(z5, z2)
    IN  2 * z + (2 * z3) \div 3 + (2 * z5) \div 5 + (2 * z7) \div 7

RECURSIVE Ln(_)
Ln(x) ==
    IF 2 * x >= 3 * Scale THEN Ln2 + Ln(x \div 2)
    ELSE IF 4 * x < 3 * Scale THEN Ln(2 * x) - Ln2
    ELSE LnUnit(x)

(***************************************************************************)
(* math.e ** x / np.exp(x): the Taylor series on |x| <= 1/2, squaring      *)
(* above it.                                                               *)
(***************************************************************************)
ExpSeries(x) ==
    LET x2 == Mul(x, x)
        x3 == Mul(x2, x)
        x4 == Mul(x3, x)
        x5 == Mul(x4, x)
    IN  Scale + x + x2 \div 2 + x3 \div 6 + x4 \div 24 + x5 \div 120

RECURSIVE Exp(_)
Exp(x) ==
    IF Abs(x) > Scale \div 2
    THEN LET h == Exp(x \div 2) IN Mul(h, h)
    ELSE ExpSeries(x)

(***************************************************************************)
(* scipy.stats.norm.cdf and norm.pdf: tabulated at steps of 0.05 on        *)
(* [0, 4.05], linear between the entries, constant beyond, and extended to *)
(* negative arguments by symmetry.                                         *)
(***************************************************************************)
TableStep == Scale \div 20

CdfTable ==
    << 5000, 5199, 5398, 5596, 5793, 5987, 6179, 6368, 6554, 6736,
       6915, 7088, 7257, 7422, 7580, 7734, 7881, 8023, 8159, 8289,
       8413, 8531, 8643, 8749, 8849, 8944, 9032, 9115, 9192, 9265,
       9332, 9394, 9452, 9505, 9554, 9599, 9641, 9678, 9713, 9744,
       9772, 9798, 9821, 9842, 9861, 9878, 9893, 9906, 9918, 9929,
       9938, 9946, 9953, 9960, 9965, 9970, 9974, 9978, 9981, 9984,
       9987, 9989, 9990, 9992, 9993, 9994, 9995, 9996, 9997, 9997,
       9998, 9998, 9998, 9999, 9999, 9999, 9999, 9999, 10000, 10000,
       10000, 10000 >>

PdfTable ==
    << 3989, 3984, 3970, 3945, 3910, 3867, 3814, 3752, 3683, 3605,
       3521, 3429, 3332, 3230, 3123, 3011, 2897, 2780, 2661, 2541,
       2420, 2299, 2179, 2059, 1942, 1826, 1714, 1604, 1497, 1394,
       1295, 1200, 1109, 1023, 940, 863, 790, 721, 656, 596,
       540, 488, 440, 396, 355, 317, 283, 252, 224, 198,
       175, 154, 136, 119, 104, 91, 79, 69, 60, 51,
       44, 38, 33, 28, 24, 20, 17, 15, 12, 10,
       9, 7, 6, 5, 4, 4, 3, 2, 2, 2,
       1, 1 >>

Interpolate(table, x) ==
    LET k == x \div TableStep
    IN  IF k + 2 > Len(table) THEN table[Len(table)]
        ELSE table[k + 1]
               + ((table[k + 2] - table[k + 1]) * (x % TableStep)) \div TableStep

norm_cdf(x) ==
    IF x >= 0 THEN Interpolate(CdfTable, x)
              ELSE Scale - Interpolate(CdfTable, -x)

norm_pdf(x) ==
    IF Abs(x) >= (Len(PdfTable) - 1) * TableStep THEN 0
    ELSE Interpolate(PdfTable, Abs(x))

(***************************************************************************)
(* Floats, attribute states and call outcomes.                             *)
(***************************************************************************)
Fin(v) == [k |-> "fin", v |-> v]
Inf(s) == [k |-> "inf", v |-> s]
NaN == [k |-> "nan", v |-> 0]
Raise(e) == [k |-> e, v |-> 0]
\* self.d1 = None after __init__; self.d2 is no attribute until calculate_d2.
None == [k |-> "None", v |-> 0]
Unset == [k |-> "unset", v |-> 0]

Exceptions == {"ValueError", "ZeroDivisionError", "TypeError", "AttributeError"}
IsError(x) == x.k \in Exceptions
IsFloat(x) == x.k \in {"fin", "inf", "nan"}
Neg(x) == [x EXCEPT !.v = -x.v]

\* x + c and x - c for a float x and a finite c.
AddFin(x, c) == IF x.k = "fin" THEN Fin(x.v + c) ELSE x

\* numpy's x / 0.0: no exception, a signed infinity or nan; zeroNeg is the
\* sign bit of the zero.
DivByZero(x, zeroNeg) ==
    LET s == IF zeroNeg THEN -1 ELSE 1
    IN  IF x.k = "nan" \/ x.v = 0 THEN NaN ELSE Inf(Sgn(x.v) * s)

\* norm.cdf of a float: 1 at +inf, 0 at -inf, nan at nan.
cdf(x) ==
    CASE x.k = "fin" -> Fin(norm_cdf(x.v))
      [] x.k = "inf" -> Fin(IF x.v > 0 THEN Scale ELSE 0)
      [] OTHER -> NaN

CALL_OPTION == "CALL_OPTION"
PUT_OPTION == "PUT_OPTION"
OptionType == {CALL_OPTION, PUT_OPTION}

(***************************************************************************)
(* BlackScholes: the right-hand sides of the methods.  np tells whether    *)
(* stock_price and volatility are numpy scalars (the elements of the grid  *)
(* axes) or Python floats: a Python float division by zero raises          *)
(* ZeroDivisionError, a numpy one yields inf or nan.  time_to_exp >= 0 in  *)
(* every state of the model (a negative one makes T ** 0.5 complex).       *)
(***************************************************************************)
calculate_d1(S, K, T, r, vol, np) ==
    LET ratio == IF K # 0 THEN Fin(Div(S, K))
                 ELSE IF ~np THEN Raise("ZeroDivisionError")
                 ELSE DivByZero(Fin(S), FALSE)
        \* math.log: the sign is taken from S and K, so that a quotient below
        \* the fixed-point resolution is still positive.
        log == CASE IsError(ratio) -> ratio
                 [] ratio.k = "nan" -> NaN
                 [] ratio.k = "inf" ->
                      IF ratio.v > 0 THEN Inf(1) ELSE Raise("ValueError")
                 [] OTHER ->
                      IF Sgn(S) * Sgn(K) <= 0 THEN Raise("ValueError")
                      ELSE Fin(Ln(Max(ratio.v, 1)))
        num == AddFin(log, Mul(T, r + Mul(vol, vol) \div 2))
    IN  IF IsError(log) THEN log
        ELSE IF vol = 0 \/ T = 0
        THEN IF np THEN DivByZero(num, vol < 0)
                   ELSE Raise("ZeroDivisionError")
        ELSE CASE num.k = "fin" -> Fin(Div(num.v, Mul(vol, Sqrt(T))))
               [] num.k = "inf" -> Inf(num.v * Sgn(vol))
               [] OTHER -> NaN

calculate_d2(d1, vol, T) ==
    IF ~IsFloat(d1) THEN Raise("TypeError")
    ELSE AddFin(d1, -Mul(vol, Sqrt(T)))

\* The put priced with norm.cdf(d1) and norm.cdf(d2), without the -1 factors.
price_formula_unsigned(S, K, T, r, option_type, d1, d2) ==
    LET disc == Exp(-Mul(r, T))
        c1 == cdf(d1)
        c2 == cdf(d2)
    IN  IF c1.k = "nan" \/ c2.k = "nan" THEN NaN
        ELSE IF option_type = CALL_OPTION
        THEN Fin(Mul(S, c1.v) - Mul(Mul(K, disc), c2.v))
        ELSE Fin(Mul(Mul(K, disc), c2.v) - Mul(S, c1.v))

\* lines 121-125 of calculate_price, d1 and d2 being floats.
price_formula(S, K, T, r, option_type, d1, d2) ==
    LET disc == Exp(-Mul(r, T))
        c1 == cdf(IF option_type = CALL_OPTION THEN d1 ELSE Neg(d1))
        c2 == cdf(IF option_type = CALL_OPTION THEN d2 ELSE Neg(d2))
    IN  IF c1.k = "nan" \/ c2.k = "nan" THEN NaN
        ELSE IF option_type = CALL_OPTION
        THEN Fin(Mul(S, c1.v) - Mul(Mul(K, disc), c2.v))
        ELSE Fin(Mul(Mul(K, disc), c2.v) - Mul(S, c1.v))

\* calculate_price() on a BlackScholes object just constructed.
calculate_price(S, K, T, r, vol, option_type, np) ==
    LET d1 == calculate_d1(S, K, T, r, vol, np)
        d2 == calculate_d2(d1, vol, T)
    IN  IF IsError(d1) THEN d1
        ELSE price_formula(S, K, T, r, option_type, d1, d2)

(***************************************************************************)
(* The Greeks read self.d1 / self.d2 as they are.  They are evaluated only *)
(* on objects built from Python floats, whose d1 and d2 are finite once    *)
(* set; norm.pdf and np.sqrt make every quotient a numpy one.              *)
(***************************************************************************)
calculate_delta(option_type, d1) ==
    IF option_type = CALL_OPTION THEN Fin(norm_cdf(d1.v))
    ELSE Fin(norm_cdf(d1.v) - Scale)

calculate_gamma(S, vol, T, d1) ==
    LET den == Mul(Mul(S, vol), Sqrt(T))
    IN  IF S = 0 \/ vol = 0 \/ T = 0
        THEN Inf(IF (S < 0) # (vol < 0) THEN -1 ELSE 1)
        ELSE Fin(Div(norm_pdf(d1.v), den))

calculate_vega(S, T, d1) == Fin(Mul(Mul(S, norm_pdf(d1.v)), Sqrt(T)))

calculate_theta(S, K, T, r, vol, option_type, d1, d2) ==
    LET num == -Mul(Mul(S, norm_pdf(d1.v)), vol)
        carry == Mul(Mul(Mul(r, K), Exp(-Mul(r, T))),
                     norm_cdf(IF option_type = CALL_OPTION THEN d2.v ELSE -d2.v))
        decay == IF T = 0 THEN DivByZero(Fin(num), FALSE)
                 ELSE Fin(Div(num, 2 * Sqrt(T)))
    IN  IF d2.k = "unset" THEN Raise("AttributeError")
        ELSE AddFin(decay, IF option_type = CALL_OPTION THEN -carry ELSE carry)

calculate_rho(S, T, r, option_type, d2) ==
    IF d2.k = "unset" THEN Raise("AttributeError")
    ELSE Fin(Mul(Mul(Mul(S, T), Exp(-Mul(r, T))),
                 norm_cdf(IF option_type = CALL_OPTION THEN d2.v ELSE -d2.v)))

(***************************************************************************)
(* State.                                                                  *)
(*   option   the BlackScholes object the callers share                    *)
(*   pc       each caller's position inside the method it is running       *)
(*   outer    the public method each caller invoked                        *)
(*   ret      what each caller's last call returned or raised, with the    *)
(*            object's six parameters as they were when it ended           *)
(*   calls    public calls made so far; sets: attribute assignments so far *)
(*   hm       the Heatmap objects; arrays: the ndarray each one allocated  *)
(*            in __init__, addressed by the reference stored in .heatmap   *)
(*   gen      the HeatmapGenerator's own attributes                        *)
(*   status   how the latest grid evaluation ended                         *)
(*   shown    the figures the script has put on the page                   *)
(*   held     a result matrix a caller kept: its reference and the values  *)
(*            it had when it was returned                                  *)
(*   evals    grid evaluations made so far                                 *)
(***************************************************************************)
VARIABLES option, pc, outer, ret, calls, sets,
          hm, arrays, gen, status, shown, held, evals

pricerVars == <<option, pc, outer, ret, calls, sets>>
gridVars == <<hm, arrays, gen, status, shown, held, evals>>
vars == <<option, pc, outer, ret, calls, sets,
          hm, arrays, gen, status, shown, held, evals>>

\* Bounds of the model.
MaxCalls == 2
MaxSets == 1
MaxThreadCalls == 2
MaxEvals == 1
MaxMatrixCalls == 2

Threads == {1, 2}

\* Parameter values, scaled: 100.0 is 100 * Scale.
StockPrices == {0, 100 * Scale, 110 * Scale}
StrikePrices == {0, 105 * Scale}
Times == {0, Scale \div 2}
Rates == {Scale \div 20}
Volatilities == {-(Scale \div 5), 0, Scale \div 5}

(***************************************************************************)
(* BlackScholes.__init__                                                   *)
(***************************************************************************)
BlackScholes(S, K, T, r, vol, option_type) ==
    [stock_price |-> S, strike_price |-> K, time_to_exp |-> T,
     risk_free_rate |-> r, volatility |-> vol, option_type |-> option_type,
     d1 |-> None, d2 |-> Unset, price |-> Unset,
     delta |-> Unset, gamma |-> Unset, vega |-> Unset,
     theta |-> Unset, rho |-> Unset]

\* The six parameters of an object.
Params(o) ==
    [stock_price |-> o.stock_price, strike_price |-> o.strike_price,
     time_to_exp |-> o.time_to_exp, risk_free_rate |-> o.risk_free_rate,
     volatility |-> o.volatility, option_type |-> o.option_type]

NoReturn == [method |-> "none", k |-> "none", vals |-> <<>>,
             params |-> Params(BlackScholes(0, 0, 0, 0, 0, CALL_OPTION))]

Returned(t, k, vals) ==
    /\ ret' = [ret EXCEPT ![t] = [method |-> outer[t], k |-> k, vals |-> vals,
                                  params |-> Params(option')]]
    /\ pc' = [pc EXCEPT ![t] = "idle"]

Goto(t, label) ==
    /\ pc' = [pc EXCEPT ![t] = label]
    /\ ret' = ret

(***************************************************************************)
(* A caller invokes a public method.                                       *)
(***************************************************************************)
Enter(t, method, label) ==
    /\ outer' = [outer EXCEPT ![t] = method]
    /\ pc' = [pc EXCEPT ![t] = label]
    /\ calls' = calls + 1
    /\ UNCHANGED <<option, ret, sets, gridVars>>

CallPrice(t, bound) ==
    /\ pc[t] = "idle"
    /\ calls < bound
    /\ Enter(t, "calculate_price", "d1")

CallGreeks(t, bound) ==
    /\ pc[t] = "idle"
    /\ calls < bound
    /\ Enter(t, "calculate_greeks", "check")

CallD1(t) ==
    /\ pc[t] = "idle"
    /\ calls < MaxCalls
    /\ Enter(t, "calculate_d1", "d1")

CallD2(t) ==
    /\ pc[t] = "idle"
    /\ calls < MaxCalls
    /\ Enter(t, "calculate_d2", "d2")

(***************************************************************************)
(* The statements of the methods, one step each.                           *)
(***************************************************************************)
\* calculate_d1: self.d1 = ...; return self.d1
StepD1(t) ==
    /\ pc[t] = "d1"
    /\ LET v == calculate_d1(option.stock_price, option.strike_price,
                             option.time_to_exp, option.risk_free_rate,
                             option.volatility, FALSE)
       IN  IF IsError(v)
           THEN option' = option /\ Returned(t, v.k, <<>>)
           ELSE /\ option' = [option EXCEPT !.d1 = v]
                /\ IF outer[t] = "calculate_d1"
                   THEN Returned(t, "ok", <<v>>)
                   ELSE Goto(t, "d2")
    /\ UNCHANGED <<outer, calls, sets, gridVars>>

\* calculate_d2: self.d2 = self.d1 - ...; return self.d2
StepD2(t) ==
    /\ pc[t] = "d2"
    /\ LET v == calculate_d2(option.d1, option.volatility, option.time_to_exp)
       IN  IF IsError(v)
           THEN option' = option /\ Returned(t, v.k, <<>>)
           ELSE /\ option' = [option EXCEPT !.d2 = v]
                /\ IF outer[t] = "calculate_d2"
                   THEN Returned(t, "ok", <<v>>)
                   ELSE Goto(t, "price")
    /\ UNCHANGED <<outer, calls, sets, gridVars>>

\* calculate_price: self.price = ...
StepPrice(t) ==
    /\ pc[t] = "price"
    /\ option' = [option EXCEPT !.price =
                     price_formula(option.stock_price, option.strike_price,
                                   option.time_to_exp, option.risk_free_rate,
                                   option.option_type, option.d1, option.d2)]
    /\ Goto(t, "ret_price")
    /\ UNCHANGED <<outer, calls, sets, gridVars>>

\* calculate_price: return self.price (to the caller, or into calculate_greeks)
StepReturnPrice(t) ==
    /\ pc[t] = "ret_price"
    /\ option' = option
    /\ IF outer[t] = "calculate_price"
       THEN Returned(t, "ok", <<option.price>>)
       ELSE Goto(t, "delta")
    /\ UNCHANGED <<outer, calls, sets, gridVars>>

\* not self.d1: None and 0.0 are falsy.
d1_is_falsy(d1) == d1.k = "None" \/ (d1.k = "fin" /\ d1.v = 0)

\* calculate_greeks: if (not self.d1): self.calculate_price()
StepCheck(t) ==
    /\ pc[t] = "check"
    /\ option' = option
    /\ Goto(t, IF d1_is_falsy(option.d1) THEN "d1" ELSE "delta")
    /\ UNCHANGED <<outer, calls, sets, gridVars>>

\* One Greek: self.<name> = self.calculate_<name>(), or the exception it raises.
StoreGreek(t, name, v, next) ==
    IF IsError(v)
    THEN option' = option /\ Returned(t, v.k, <<>>)
    ELSE option' = [option EXCEPT ![name] = v] /\ Goto(t, next)

StepDelta(t) ==
    /\ pc[t] = "delta"
    /\ StoreGreek(t, "delta",
                  calculate_delta(option.option_type, option.d1), "gamma")
    /\ UNCHANGED <<outer, calls, sets, gridVars>>

StepGamma(t) ==
    /\ pc[t] = "gamma"
    /\ StoreGreek(t, "gamma",
                  calculate_gamma(option.stock_price, option.volatility,
                                  option.time_to_exp, option.d1), "vega")
    /\ UNCHANGED <<outer, calls, sets, gridVars>>

StepVega(t) ==
    /\ pc[t] = "vega"
    /\ StoreGreek(t, "vega",
                  calculate_vega(option.stock_price, option.time_to_exp,
                                 option.d1), "theta")
    /\ UNCHANGED <<outer, calls, sets, gridVars>>

StepTheta(t) ==
    /\ pc[t] = "theta"
    /\ StoreGreek(t, "theta",
                  calculate_theta(option.stock_price, option.strike_price,
                                  option.time_to_exp, option.risk_free_rate,
                                  option.volatility, option.option_type,
                                  option.d1, option.d2), "rho")
    /\ UNCHANGED <<outer, calls, sets, gridVars>>

StepRho(t) ==
    /\ pc[t] = "rho"
    /\ StoreGreek(t, "rho",
                  calculate_rho(option.stock_price, option.time_to_exp,
                                option.risk_free_rate, option.option_type,
                                option.d2), "ret_greeks")
    /\ UNCHANGED <<outer, calls, sets, gridVars>>

\* return [self.delta, self.gamma, self.vega, self.theta, self.rho]
StepReturnGreeks(t) ==
    /\ pc[t] = "ret_greeks"
    /\ option' = option
    /\ Returned(t, "ok", <<option.delta, option.gamma, option.vega,
                           option.theta, option.rho>>)
    /\ UNCHANGED <<outer, calls, sets, gridVars>>

(***************************************************************************)
(* Between calls the caller assigns a parameter attribute of the object.   *)
(***************************************************************************)
SetAttribute ==
    /\ \A t \in Threads : pc[t] = "idle"
    /\ sets < MaxSets
    /\ sets' = sets + 1
    /\ \/ \E v \in StockPrices : option' = [option EXCEPT !.stock_price = v]
       \/ \E v \in StrikePrices : option' = [option EXCEPT !.strike_price = v]
       \/ \E v \in Times : option' = [option EXCEPT !.time_to_exp = v]
       \/ \E v \in Volatilities : option' = [option EXCEPT !.volatility = v]
       \/ \E v \in OptionType : option' = [option EXCEPT !.option_type = v]
    /\ option' # option
    /\ UNCHANGED <<pc, outer, ret, calls, gridVars>>

(***************************************************************************)
(* Heatmap (src/src/heatmap.py).  A matrix is a function on                *)
(* Idx x Idx, rows indexed by volatility, columns by stock price.  The     *)
(* ndarray an object allocates lives in arrays, under the reference the    *)
(* object keeps in .heatmap; compute_matrix returns that reference.        *)
(***************************************************************************)
GridSize == 10
Idx == 0 .. (GridSize - 1)

Hundredth == Scale \div 100

\* np.zeros((10, 10))
np_zeros == [i \in Idx |-> [j \in Idx |-> Fin(0)]]

\* The attribute does not exist before generate_grid.
NoAxis == <<>>
\* No matrix: the attribute has not been assigned.
NoRef == "none"

\* The ndarray allocated by the __init__ of object id: one per object.
new_array(id) == id

\* Heatmap.__init__
Heatmap(id, K, T, r, smin, smax, vmin, vmax, option_type, pnl, base) ==
    [strike_price |-> K, time_to_exp |-> T, risk_free_rate |-> r,
     option_type |-> option_type,
     min_stock_price |-> smin, max_stock_price |-> smax,
     min_volatility |-> vmin, max_volatility |-> vmax,
     heatmap |-> new_array(id), isPNL |-> pnl, base_price |-> base,
     stock_prices |-> NoAxis, volatilities |-> NoAxis]

\* The same ten values taken from stop down to start.
linspace_reversed(start, stop, k) == stop * (GridSize - 1 - k) + start * k

\* np.linspace(start, stop, 10)[k], times GridSize - 1: the exact value is
\* this integer over GridSize - 1.
linspace(start, stop, k) == start * (GridSize - 1 - k) + stop * k

\* np.floor(n / d), d > 0.
np_floor(n, d) == n \div d

\* np.ceil(n / d), d > 0.
np_ceil(n, d) == -((-n) \div d)

\* np.ceil(np.linspace(lo, hi, 10) * 100) / 100
axis(lo, hi) ==
    [k \in Idx |->
        np_ceil(linspace(lo, hi, k), (GridSize - 1) * Hundredth) * Hundredth]

\* generate_grid: the two attributes it assigns (and returns).
generate_grid(self) ==
    [self EXCEPT
       !.stock_prices = axis(self.min_stock_price, self.max_stock_price),
       !.volatilities = axis(self.min_volatility, self.max_volatility)]

\* np.round(x, 2): to the nearest hundredth, ties to the even one; nan stays.
RoundHalfEven(v, unit) ==
    LET q == v \div unit
        r == v % unit
    IN  IF 2 * r < unit THEN q * unit
        ELSE IF 2 * r > unit THEN (q + 1) * unit
        ELSE IF q % 2 = 0 THEN q * unit ELSE (q + 1) * unit

np_round(x) == IF x.k = "fin" THEN Fin(RoundHalfEven(x.v, Hundredth)) ELSE x

\* The price at (volatilities[j], stock_prices[i]): the indices exchanged.
cell_price_transposed(self, i, j) ==
    calculate_price(self.stock_prices[i], self.strike_price, self.time_to_exp,
                    self.risk_free_rate, self.volatilities[j],
                    self.option_type, TRUE)

\* option = BlackScholes(s, ...,  vol, ...); option.calculate_price() for
\* cell (i, j): s and vol are numpy scalars.
cell_price(self, i, j) ==
    calculate_price(self.stock_prices[j], self.strike_price, self.time_to_exp,
                    self.risk_free_rate, self.volatilities[i],
                    self.option_type, TRUE)

\* base - x for a float x.
base_minus(base, x) == IF x.k = "fin" THEN Fin(base - x.v) ELSE Neg(x)

\* The P&L taken from the price already rounded to two decimals.
cell_value_of_rounded(self, price) ==
    IF self.isPNL THEN np_round(base_minus(self.base_price, np_round(price)))
    ELSE np_round(price)

\* What is stored in the cell, given the price (lines 64-69).
cell_value(self, price) ==
    IF self.isPNL THEN np_round(base_minus(self.base_price, price))
    ELSE np_round(price)

\* The inner loop of compute_matrix for row i from column j on, row being
\* the row as written so far: the row left behind and how the loop ended.
\* It stops at the first cell whose pricing raises; the cells before it have
\* been written, the others keep what they held.
RECURSIVE InnerLoop(_, _, _, _), StoreCell(_, _, _, _, _)
\* The body of the inner loop, price being what option.calculate_price()
\* returned or raised.
StoreCell(self, row, i, j, price) ==
    IF IsError(price) THEN [row |-> row, k |-> price.k]
    ELSE InnerLoop(self, [row EXCEPT ![j] = cell_value(self, price)], i, j + 1)

InnerLoop(self, row, i, j) ==
    IF j = GridSize THEN [row |-> row, k |-> "ok"]
    ELSE StoreCell(self, row, i, j, cell_price(self, i, j))

\* The outer loop from row i on, m being the matrix as written so far: the
\* matrix left behind and how the call ended.
RECURSIVE OuterLoop(_, _, _), StoreRow(_, _, _, _)
StoreRow(self, m, i, inner) ==
    IF inner.k # "ok" THEN [matrix |-> [m EXCEPT ![i] = inner.row], k |-> inner.k]
    ELSE OuterLoop(self, [m EXCEPT ![i] = inner.row], i + 1)

OuterLoop(self, m, i) ==
    IF i = GridSize THEN [matrix |-> m, k |-> "ok"]
    ELSE StoreRow(self, m, i, InnerLoop(self, m[i], i, 0))

\* compute_matrix on the matrix old.
compute_matrix(self, old) ==
    IF self.volatilities = NoAxis
    THEN [matrix |-> old, k |-> "AttributeError"]
    ELSE OuterLoop(self, old, 0)

(***************************************************************************)
(* HeatmapGenerator (src/src/visualization.py).                            *)
(***************************************************************************)
Order == <<"call", "put", "call_pnl", "put_pnl">>
HeatmapIds == {Order[n] : n \in 1 .. 4}

\* HeatmapGenerator.__init__: its own attributes ...
HeatmapGenerator(K, T, r, smin, smax, vmin, vmax, base_call, base_put) ==
    [strike_price |-> K, time_to_exp |-> T, risk_free_rate |-> r,
     min_stock_price |-> smin, max_stock_price |-> smax,
     min_volatility |-> vmin, max_volatility |-> vmax,
     base_call_price |-> base_call, base_put_price |-> base_put,
     stock_prices |-> NoAxis, volatilities |-> NoAxis,
     values |-> [h \in HeatmapIds |-> NoRef]]

\* ... and the four Heatmap objects it builds.
GeneratorHeatmaps(g) ==
    [h \in HeatmapIds |->
        Heatmap(h, g.strike_price, g.time_to_exp, g.risk_free_rate,
                g.min_stock_price, g.max_stock_price,
                g.min_volatility, g.max_volatility,
                IF h \in {"call", "call_pnl"} THEN CALL_OPTION ELSE PUT_OPTION,
                h \in {"call_pnl", "put_pnl"},
                CASE h = "call_pnl" -> g.base_call_price
                  [] h = "put_pnl" -> g.base_put_price
                  [] OTHER -> 0)]

\* The four compute_matrix calls of compute_heatmaps from the n-th on, on
\* the heatmaps hs and the arrays arrs: the arrays left behind, how it
\* ended, and the matrices assigned to the generator's attributes.
RECURSIVE RunMatrices(_, _, _, _), AssignMatrix(_, _, _, _, _)
\* self.<h>_heatmap_values = res, res being what the n-th compute_matrix call
\* left and returned: nothing is assigned when the call raised.
AssignMatrix(n, hs, arrs, vals, res) ==
    IF res.k # "ok"
    THEN [arrays |-> [arrs EXCEPT ![hs[Order[n]].heatmap] = res.matrix],
          k |-> res.k, values |-> vals]
    ELSE RunMatrices(n + 1, hs,
                     [arrs EXCEPT ![hs[Order[n]].heatmap] = res.matrix],
                     [vals EXCEPT ![Order[n]] = hs[Order[n]].heatmap])

RunMatrices(n, hs, arrs, vals) ==
    IF n > Len(Order) THEN [arrays |-> arrs, k |-> "ok", values |-> vals]
    ELSE AssignMatrix(n, hs, arrs, vals,
                      compute_matrix(hs[Order[n]], arrs[hs[Order[n]].heatmap]))

\* compute_heatmaps (the script calls it once, before it draws)
ComputeHeatmaps ==
    /\ gen # Unset
    /\ shown = {}
    /\ evals < MaxEvals
    /\ evals' = evals + 1
    /\ hm' = [h \in HeatmapIds |-> generate_grid(hm[h])]
    /\ \E run \in {RunMatrices(1, hm', arrays, gen.values)} :
           /\ arrays' = run.arrays
           /\ gen' = [gen EXCEPT !.stock_prices = hm'["call"].stock_prices,
                                 !.volatilities = hm'["call"].volatilities,
                                 !.values = run.values]
           /\ status' = run.k
    /\ UNCHANGED <<shown, held, pricerVars>>

(***************************************************************************)
(* The script (src/app.py): graph_all_heatmaps draws the four matrices;    *)
(* the two price figures are put on the page, the two P&L figures only if  *)
(* both base prices are truthy.                                            *)
(***************************************************************************)
\* Either base price truthy.
show_pnl_either(base_call, base_put) == base_call # 0 \/ base_put # 0

\* if base_call_price and base_put_price (line 191)
show_pnl(base_call, base_put) == base_call # 0 /\ base_put # 0

Display ==
    /\ gen # Unset
    /\ status = "ok"
    /\ shown' = {"call_graph", "put_graph"}
                  \cup IF show_pnl(gen.base_call_price, gen.base_put_price)
                       THEN {"call_pnl_graph", "put_pnl_graph"} ELSE {}
    /\ shown' # shown
    /\ UNCHANGED <<hm, arrays, gen, status, held, evals, pricerVars>>

\* Lines 161-168: the base prices are those of the current contract when the
\* current price and volatility lie within the grid's bounds, else 0.
AppBasePrices(S, K, T, r, vol, smin, smax, vmin, vmax) ==
    IF ~(vol < vmin \/ vol > vmax \/ S < smin \/ S > smax)
    THEN << calculate_price(S, K, T, r, vol, CALL_OPTION, FALSE).v,
            calculate_price(S, K, T, r, vol, PUT_OPTION, FALSE).v >>
    ELSE << 0, 0 >>

(***************************************************************************)
(* Specifications of the pricer.  No grid object exists in them.           *)
(***************************************************************************)
NoGrid ==
    /\ hm = <<>>
    /\ arrays = <<>>
    /\ gen = Unset
    /\ status = "none"
    /\ shown = {}
    /\ held = Unset
    /\ evals = 0

PricerInit(Ss, Ks, Ts, vols) ==
    /\ option \in {BlackScholes(S, K, T, r, vol, ty) :
                     S \in Ss, K \in Ks, T \in Ts, r \in Rates,
                     vol \in vols, ty \in OptionType}
    /\ pc = [t \in Threads |-> "idle"]
    /\ outer = [t \in Threads |-> "none"]
    /\ ret = [t \in Threads |-> NoReturn]
    /\ calls = 0
    /\ sets = 0
    /\ NoGrid

Step(t) ==
    \/ StepD1(t)
    \/ StepD2(t)
    \/ StepPrice(t)
    \/ StepReturnPrice(t)
    \/ StepCheck(t)
    \/ StepDelta(t)
    \/ StepGamma(t)
    \/ StepVega(t)
    \/ StepTheta(t)
    \/ StepRho(t)
    \/ StepReturnGreeks(t)

\* One caller: calls follow one another, attributes may change in between.
Init == PricerInit(StockPrices, StrikePrices, Times, Volatilities)

Next ==
    \/ CallPrice(1, MaxCalls)
    \/ CallGreeks(1, MaxCalls)
    \/ CallD1(1)
    \/ CallD2(1)
    \/ Step(1)
    \/ SetAttribute

Spec == Init /\ [][Next]_vars

\* Two threads call calculate_price and calculate_greeks on one object whose
\* parameters are valid and never change; a thread switch may fall between
\* any two statements.
ThreadsInit ==
    PricerInit({100 * Scale, 110 * Scale}, {105 * Scale}, {Scale \div 2},
               {Scale \div 5})

ThreadsNext ==
    \E t \in Threads :
        \/ CallPrice(t, MaxThreadCalls)
        \/ CallGreeks(t, MaxThreadCalls)
        \/ Step(t)

SpecThreads == ThreadsInit /\ [][ThreadsNext]_vars

(***************************************************************************)
(* Specification of calculate_price on valid contracts: an object is built *)
(* from strictly positive parameters and priced.                           *)
(***************************************************************************)
ValidStockPrices == {80 * Scale, 100 * Scale, 120 * Scale, 150 * Scale}
ValidStrikePrices == {70 * Scale, 100 * Scale, 105 * Scale}
ValidTimes == {Scale \div 4, Scale \div 2, Scale, (11 * Scale) \div 10}
ValidVolatilities == {Scale \div 10, Scale \div 5, (38 * Scale) \div 100}

ContractsInit ==
    PricerInit(ValidStockPrices, ValidStrikePrices, ValidTimes,
               ValidVolatilities)

ContractsNext ==
    \/ CallPrice(1, MaxCalls)
    \/ StepD1(1)
    \/ StepD2(1)
    \/ StepPrice(1)
    \/ StepReturnPrice(1)

SpecContracts == ContractsInit /\ [][ContractsNext]_vars

(***************************************************************************)
(* Specification of the grid evaluator: a HeatmapGenerator is built (by    *)
(* the script, or directly with the default base prices), compute_heatmaps *)
(* runs on it, and the script displays the figures.                        *)
(***************************************************************************)
NoPricer ==
    /\ option = Unset
    /\ pc = [t \in Threads |-> "idle"]
    /\ outer = [t \in Threads |-> "none"]
    /\ ret = [t \in Threads |-> NoReturn]
    /\ calls = 0
    /\ sets = 0

\* Strike, time to expiry and rate of a request.
Contracts ==
    { [K |-> 100 * Scale, T |-> Scale, r |-> Scale \div 20],
      [K |-> 70 * Scale, T |-> (11 * Scale) \div 10, r |-> Scale \div 10] }

\* (min, max) of the stock price axis and of the volatility axis; the first
\* of each is what the script proposes.
DefaultStockRange == <<80 * Scale, 120 * Scale>>
DefaultVolRange == <<10 * Hundredth, 30 * Hundredth>>

StockRanges ==
    { DefaultStockRange, <<7994 * Hundredth, 11992 * Hundredth>>,
      <<120 * Scale, 80 * Scale>>, <<0, 90 * Scale>>, <<90 * Scale, 0>>,
      <<95 * Scale, 95 * Scale + 3 * Hundredth>> }
VolRanges ==
    { DefaultVolRange, <<17 * Hundredth, 38 * Hundredth>>,
      <<30 * Hundredth, 10 * Hundredth>>, <<0, 30 * Hundredth>> }

\* The requests: one of the two ranges is the default one.
Ranges ==
    {<<sr, DefaultVolRange>> : sr \in StockRanges}
      \cup {<<DefaultStockRange, vr>> : vr \in VolRanges}

\* The script's current asset price and volatility (the widgets' defaults).
CurrentPrice == 100 * Scale
CurrentVolatility == 20 * Hundredth

\* base_call_price, base_put_price: the defaults, what the script passes, or
\* a caller's own pair.
BasePairs(c, sr, vr) ==
    { <<0, 0>>,
      AppBasePrices(CurrentPrice, c.K, c.T, c.r, CurrentVolatility,
                    sr[1], sr[2], vr[1], vr[2]),
      <<0, 5 * Scale>> }

GridInit ==
    /\ \E c \in Contracts, rg \in Ranges :
         \E b \in BasePairs(c, rg[1], rg[2]) :
            gen = HeatmapGenerator(c.K, c.T, c.r, rg[1][1], rg[1][2],
                                   rg[2][1], rg[2][2], b[1], b[2])
    /\ hm = GeneratorHeatmaps(gen)
    /\ arrays = [ref \in {hm[h].heatmap : h \in HeatmapIds} |-> np_zeros]
    /\ status = "none"
    /\ shown = {}
    /\ held = Unset
    /\ evals = 0
    /\ NoPricer

GridNext ==
    \/ ComputeHeatmaps
    \/ Display

SpecGrid == GridInit /\ [][GridNext]_vars

(***************************************************************************)
(* Specification of one Heatmap object used on its own: generate_grid and  *)
(* compute_matrix are called on it and its attributes are assigned in      *)
(* between.  The caller keeps the first matrix a compute_matrix call       *)
(* returns.                                                                *)
(***************************************************************************)
TheHeatmap == "h"

\* The kept result: the reference compute_matrix returned and the values
\* the matrix had at that moment.
Held(ref, values) == [ref |-> ref, values |-> values]

\* heatmap.generate_grid()
GenerateGrid ==
    /\ gen = Unset
    /\ hm' = [hm EXCEPT ![TheHeatmap] = generate_grid(@)]
    /\ hm' # hm
    /\ UNCHANGED <<arrays, gen, status, shown, held, evals, pricerVars>>

\* result = heatmap.compute_matrix()
ComputeMatrix ==
    /\ gen = Unset
    /\ evals < MaxMatrixCalls
    /\ evals' = evals + 1
    /\ \E res \in {compute_matrix(hm[TheHeatmap],
                                  arrays[hm[TheHeatmap].heatmap])} :
           /\ arrays' = [arrays EXCEPT ![hm[TheHeatmap].heatmap] = res.matrix]
           /\ status' = res.k
           /\ held' = IF held = Unset /\ res.k = "ok"
                      THEN Held(hm[TheHeatmap].heatmap, res.matrix)
                      ELSE held
    /\ UNCHANGED <<hm, gen, shown, pricerVars>>

\* heatmap.strike_price = v, heatmap.max_stock_price = v
SetHeatmapAttribute ==
    /\ gen = Unset
    /\ sets < MaxSets
    /\ sets' = sets + 1
    /\ \/ \E c \in Contracts :
            hm' = [hm EXCEPT ![TheHeatmap].strike_price = c.K]
       \/ \E sr \in StockRanges :
            hm' = [hm EXCEPT ![TheHeatmap].max_stock_price = sr[2]]
    /\ hm' # hm
    /\ UNCHANGED <<arrays, gen, status, shown, held, evals,
                   option, pc, outer, ret, calls>>

HeatmapInit ==
    /\ \E c \in Contracts, ty \in OptionType, base \in {0, 5 * Scale} :
          hm = [h \in {TheHeatmap} |->
                  Heatmap(h, c.K, c.T, c.r,
                          DefaultStockRange[1], DefaultStockRange[2],
                          DefaultVolRange[1], DefaultVolRange[2],
                          ty, base # 0, base)]
    /\ arrays = [ref \in {hm[TheHeatmap].heatmap} |-> np_zeros]
    /\ gen = Unset
    /\ status = "none"
    /\ shown = {}
    /\ held = Unset
    /\ evals = 0
    /\ NoPricer

HeatmapNext ==
    \/ GenerateGrid
    \/ ComputeMatrix
    \/ SetHeatmapAttribute

SpecHeatmap == HeatmapInit /\ [][HeatmapNext]_vars

(***************************************************************************)
(* What a call returns when it runs alone on an object whose d1 and d2 are *)
(* derived from the parameters p.                                          *)
(***************************************************************************)
PriceOf(p) ==
    calculate_price(p.stock_price, p.strike_price, p.time_to_exp,
                    p.risk_free_rate, p.volatility, p.option_type, FALSE)

GreeksOf(p) ==
    LET d1 == calculate_d1(p.stock_price, p.strike_price, p.time_to_exp,
                           p.risk_free_rate, p.volatility, FALSE)
        d2 == calculate_d2(d1, p.volatility, p.time_to_exp)
    IN  IF IsError(d1) THEN <<d1>>
        ELSE << calculate_delta(p.option_type, d1),
                calculate_gamma(p.stock_price, p.volatility, p.time_to_exp, d1),
                calculate_vega(p.stock_price, p.time_to_exp, d1),
                calculate_theta(p.stock_price, p.strike_price, p.time_to_exp,
                                p.risk_free_rate, p.volatility, p.option_type,
                                d1, d2),
                calculate_rho(p.stock_price, p.time_to_exp, p.risk_free_rate,
                              p.option_type, d2) >>

\* Pricer's preconditions (spec 4.1) are violated by the parameters p.
InvalidParameters(p) ==
    \/ p.stock_price <= 0
    \/ p.strike_price <= 0
    \/ p.time_to_exp <= 0
    \/ p.volatility <= 0

PricingCall(r) == r.method \in {"calculate_price", "calculate_greeks"}

(***************************************************************************)
(* C1: a calculate_price or calculate_greeks call on a contract whose      *)
(* stock price, strike, time to expiry or volatility is not strictly       *)
(* positive ends in an InvalidParameter error: it returns no value and     *)
(* raises nothing else.                                                    *)
(***************************************************************************)
C1_InvalidParameterReported ==
    \A t \in Threads :
        (PricingCall(ret[t]) /\ InvalidParameters(ret[t].params))
            => ret[t].k = "InvalidParameter"

(***************************************************************************)
(* C3: the price and the Greeks a call returns are those derived from the  *)
(* object's six parameters as they are at that call, whatever was called   *)
(* or assigned before.                                                     *)
(***************************************************************************)
C3_NoStaleState ==
    \A t \in Threads :
        /\ (ret[t].method = "calculate_price" /\ ret[t].k = "ok")
              => ret[t].vals = <<PriceOf(ret[t].params)>>
        /\ (ret[t].method = "calculate_greeks" /\ ret[t].k = "ok")
              => ret[t].vals = GreeksOf(ret[t].params)

(***************************************************************************)
(* C4: under every interleaving of two threads' calculate_price and        *)
(* calculate_greeks calls on one object, each call completes without error *)
(* and returns what it returns when run alone.                             *)
(***************************************************************************)
C4_ThreadSafe ==
    \A t \in Threads :
        PricingCall(ret[t]) =>
            /\ ret[t].k = "ok"
            /\ ret[t].vals = IF ret[t].method = "calculate_price"
                             THEN <<PriceOf(ret[t].params)>>
                             ELSE GreeksOf(ret[t].params)

(***************************************************************************)
(* Grid results as a caller of compute_heatmaps sees them.                 *)
(***************************************************************************)
PnlIds == {"call_pnl", "put_pnl"}
PriceIdOf(h) == IF h \in {"call", "call_pnl"} THEN "call" ELSE "put"
SideOf(h) == IF PriceIdOf(h) = "call" THEN CALL_OPTION ELSE PUT_OPTION
BaseOf(h) ==
    CASE h = "call_pnl" -> gen.base_call_price
      [] h = "put_pnl" -> gen.base_put_price
      [] OTHER -> 0

\* The unrounded price at (volatilities[i], stock_prices[j]) of the axes the
\* generator exposes, with its strike, time to expiry and rate.
PriceAt(h, i, j) ==
    calculate_price(gen.stock_prices[j], gen.strike_price, gen.time_to_exp,
                    gen.risk_free_rate, gen.volatilities[i], SideOf(h), TRUE)

\* Some cell of the grid violates the pricer's preconditions.
InvalidCell ==
    \E i \in Idx, j \in Idx :
        InvalidParameters(
            [stock_price |-> hm["call"].stock_prices[j],
             strike_price |-> hm["call"].strike_price,
             time_to_exp |-> hm["call"].time_to_exp,
             volatility |-> hm["call"].volatilities[i]])

(***************************************************************************)
(* C2: a grid evaluation with a cell that violates the pricer's            *)
(* preconditions fails as a whole, and a failed evaluation returns no      *)
(* matrix and leaves none partially filled.                                *)
(***************************************************************************)
C2_FailFast ==
    (gen # Unset /\ evals = 1) =>
        /\ InvalidCell => status # "ok"
        /\ status # "ok" =>
              /\ \A h \in HeatmapIds : gen.values[h] = NoRef
              /\ \A ref \in DOMAIN arrays : arrays[ref] = np_zeros

(***************************************************************************)
(* C5 as stated: with a base price supplied, each P&L cell is the base     *)
(* price minus the corresponding cell of the (rounded) price matrix,       *)
(* rounded to two decimals.                                                *)
(***************************************************************************)
C5_PnLOfRoundedPrice ==
    (gen # Unset /\ status = "ok") =>
        \A h \in PnlIds : BaseOf(h) # 0 =>
            \A i \in Idx, j \in Idx :
                arrays[gen.values[h]][i][j] =
                    np_round(base_minus(BaseOf(h),
                                        arrays[gen.values[PriceIdOf(h)]][i][j]))

(***************************************************************************)
(* C5 amended: with a base price supplied, each P&L cell is the base price *)
(* minus the unrounded price computed for that cell, rounded to two        *)
(* decimals.                                                               *)
(***************************************************************************)
C5_PnLOfUnroundedPrice ==
    (gen # Unset /\ status = "ok") =>
        \A h \in PnlIds : BaseOf(h) # 0 =>
            \A i \in Idx, j \in Idx :
                arrays[gen.values[h]][i][j] =
                    np_round(base_minus(BaseOf(h), PriceAt(h, i, j)))

\* An evaluation with a base price supplied in which a P&L cell is not the
\* rounded difference of the base price and the price matrix's cell.
C5_Witness ==
    /\ gen # Unset
    /\ status = "ok"
    /\ \E h \in PnlIds, i \in Idx, j \in Idx :
          /\ BaseOf(h) # 0
          /\ arrays[gen.values[h]][i][j].k = "fin"
          /\ arrays[gen.values[h]][i][j] #
                np_round(base_minus(BaseOf(h),
                                    arrays[gen.values[PriceIdOf(h)]][i][j]))

(***************************************************************************)
(* Axes.  The k-th of ten evenly spaced values from lo to hi is            *)
(* lo + k (hi - lo) / 9; the comparisons below are multiplied by 9.        *)
(***************************************************************************)
NineTimesEven(lo, hi, k) == 9 * lo + k * (hi - lo)

\* a is the axis of the range (lo, hi): ten values, each the least multiple
\* of 0.01 that is not below the evenly spaced value.
IsCeilingAxis(a, lo, hi) ==
    /\ DOMAIN a = 0 .. 9
    /\ \A k \in 0 .. 9 :
          /\ a[k] % Hundredth = 0
          /\ 9 * a[k] >= NineTimesEven(lo, hi, k)
          /\ 9 * (a[k] - Hundredth) < NineTimesEven(lo, hi, k)
    /\ a[0] >= lo
    /\ a[9] >= hi

NonDecreasing(a) == \A k \in 0 .. 8 : a[k] <= a[k + 1]
NonIncreasing(a) == \A k \in 0 .. 8 : a[k] >= a[k + 1]

GridGenerated(h) == hm[h].stock_prices # NoAxis

(***************************************************************************)
(* C6: generate_grid leaves a stock price axis and a volatility axis of    *)
(* exactly ten values, the k-th being the k-th of ten evenly spaced values *)
(* from min to max rounded up to the next 0.01; so every value is at least *)
(* the evenly spaced one, and the first and last are at least min and max. *)
(***************************************************************************)
C6_AxisIsCeiling ==
    \A h \in DOMAIN hm : GridGenerated(h) =>
        /\ IsCeilingAxis(hm[h].stock_prices,
                         hm[h].min_stock_price, hm[h].max_stock_price)
        /\ IsCeilingAxis(hm[h].volatilities,
                         hm[h].min_volatility, hm[h].max_volatility)

\* A generated grid in which one value was rounded up and another was
\* already a multiple of 0.01.
C6_Witness ==
    \E h \in DOMAIN hm :
        /\ GridGenerated(h)
        /\ \E k \in Idx : 9 * hm[h].stock_prices[k] >
              NineTimesEven(hm[h].min_stock_price, hm[h].max_stock_price, k)
        /\ \E k \in Idx : 9 * hm[h].stock_prices[k] =
              NineTimesEven(hm[h].min_stock_price, hm[h].max_stock_price, k)

(***************************************************************************)
(* C7 as stated: for every pair of bounds, both axes are non-decreasing in *)
(* index order.                                                            *)
(***************************************************************************)
C7_AxesNonDecreasing ==
    \A h \in DOMAIN hm : GridGenerated(h) =>
        /\ NonDecreasing(hm[h].stock_prices)
        /\ NonDecreasing(hm[h].volatilities)

(***************************************************************************)
(* C7 amended: an axis is non-decreasing in index order when its min is at *)
(* most its max, and non-increasing when its min is at least its max.      *)
(***************************************************************************)
C7_AxesFollowBounds ==
    \A h \in DOMAIN hm : GridGenerated(h) =>
        /\ hm[h].min_stock_price <= hm[h].max_stock_price
              => NonDecreasing(hm[h].stock_prices)
        /\ hm[h].min_stock_price >= hm[h].max_stock_price
              => NonIncreasing(hm[h].stock_prices)
        /\ hm[h].min_volatility <= hm[h].max_volatility
              => NonDecreasing(hm[h].volatilities)
        /\ hm[h].min_volatility >= hm[h].max_volatility
              => NonIncreasing(hm[h].volatilities)

\* A generated grid whose stock bounds are in order and whose volatility
\* bounds are not: one axis ascends, the other descends.
C7_Witness ==
    \E h \in DOMAIN hm :
        /\ GridGenerated(h)
        /\ hm[h].min_stock_price < hm[h].max_stock_price
        /\ hm[h].stock_prices[0] < hm[h].stock_prices[9]
        /\ hm[h].min_volatility > hm[h].max_volatility
        /\ hm[h].volatilities[0] > hm[h].volatilities[9]

(***************************************************************************)
(* C8: after an evaluation, each of the four matrices is 10x10 and its     *)
(* cell (i, j) holds the value priced at (volatilities[i],                 *)
(* stock_prices[j]) of the one pair of axes the generator exposes, with    *)
(* the shared strike, time to expiry and rate: a function of that cell's   *)
(* own coordinates only.                                                   *)
(***************************************************************************)
C8_CellsPricedAtAxes ==
    (gen # Unset /\ status = "ok") =>
        /\ DOMAIN gen.stock_prices = 0 .. 9
        /\ DOMAIN gen.volatilities = 0 .. 9
        /\ \A h \in HeatmapIds :
              /\ gen.values[h] # NoRef
              /\ DOMAIN arrays[gen.values[h]] = 0 .. 9
              /\ \A i \in 0 .. 9 :
                    /\ DOMAIN arrays[gen.values[h]][i] = 0 .. 9
                    /\ \A j \in 0 .. 9 :
                          arrays[gen.values[h]][i][j] =
                              IF h \in PnlIds
                              THEN np_round(base_minus(BaseOf(h),
                                                       PriceAt(h, i, j)))
                              ELSE np_round(PriceAt(h, i, j))

\* An evaluation whose call price matrix varies along both axes.
C8_Witness ==
    /\ gen # Unset
    /\ status = "ok"
    /\ arrays[gen.values["call"]][0][0] # arrays[gen.values["call"]][0][9]
    /\ arrays[gen.values["call"]][0][0] # arrays[gen.values["call"]][9][0]
    /\ arrays[gen.values["call"]][0][9] # arrays[gen.values["call"]][9][0]

(***************************************************************************)
(* C9 as stated: a P&L matrix is computed and returned only if its base    *)
(* price is non-zero; with a base price of 0 the evaluation computes and   *)
(* returns no P&L matrix for that side.                                    *)
(***************************************************************************)
C9_PnLOnlyWithBase ==
    (gen # Unset /\ status = "ok") =>
        \A h \in PnlIds : BaseOf(h) = 0 =>
            /\ gen.values[h] = NoRef
            /\ arrays[hm[h].heatmap] = np_zeros

(***************************************************************************)
(* C9 amended: every evaluation computes and returns both P&L matrices,    *)
(* whatever the base prices; with a base price of 0 each P&L cell is the   *)
(* negated cell of the price matrix.  Only the script's display is         *)
(* conditional: it shows the two P&L figures exactly when both base prices *)
(* are non-zero.                                                           *)
(***************************************************************************)
C9_PnLAlwaysComputed ==
    (gen # Unset /\ status = "ok") =>
        /\ \A h \in PnlIds :
              /\ gen.values[h] = hm[h].heatmap
              /\ BaseOf(h) = 0 =>
                    \A i \in Idx, j \in Idx :
                        arrays[gen.values[h]][i][j] =
                            Neg(arrays[gen.values[PriceIdOf(h)]][i][j])
        /\ shown # {} =>
              /\ {"call_graph", "put_graph"} \subseteq shown
              /\ \A f \in {"call_pnl_graph", "put_pnl_graph"} :
                    f \in shown <=> (gen.base_call_price # 0
                                       /\ gen.base_put_price # 0)

\* The figures are on the page after an evaluation with no call base price
\* and a put base price: a call P&L matrix was computed all the same.
C9_Witness ==
    /\ gen # Unset
    /\ status = "ok"
    /\ shown # {}
    /\ gen.base_call_price = 0
    /\ gen.base_put_price # 0
    /\ gen.values["call_pnl"] # NoRef
    /\ arrays[gen.values["call_pnl"]] # np_zeros

(***************************************************************************)
(* C10: the matrix a compute_matrix call returned keeps the values it had  *)
(* when it was returned, whatever is evaluated later on the same object.   *)
(***************************************************************************)
C10_ResultKeepsItsValues ==
    held # Unset => arrays[held.ref] = held.values

(***************************************************************************)
(* The same contract on the other side.                                    *)
(***************************************************************************)
OtherSide(p) ==
    [p EXCEPT !.option_type = IF @ = CALL_OPTION THEN PUT_OPTION
                                                 ELSE CALL_OPTION]

\* The price calculate_price returned to caller t, and the price of the
\* same contract on the other side.
CallPriceOf(t) ==
    IF ret[t].params.option_type = CALL_OPTION
    THEN ret[t].vals[1] ELSE PriceOf(OtherSide(ret[t].params))
PutPriceOf(t) ==
    IF ret[t].params.option_type = PUT_OPTION
    THEN ret[t].vals[1] ELSE PriceOf(OtherSide(ret[t].params))

\* K e^(-rT) - S
DiscountedStrikeMinusStock(p) ==
    Mul(p.strike_price, Exp(-Mul(p.risk_free_rate, p.time_to_exp)))
        - p.stock_price

PricedValid(t) ==
    /\ ret[t].method = "calculate_price"
    /\ ~InvalidParameters(ret[t].params)

(***************************************************************************)
(* C11: put-call parity.  For a valid contract, the put price minus the    *)
(* call price that calculate_price computes for the same S, K, T, r and    *)
(* volatility is K e^(-rT) - S, up to the rounding of the arithmetic: each *)
(* price is a difference of two products, each rounded by less than one    *)
(* unit of the last decimal kept.                                          *)
(***************************************************************************)
C11_PutCallParity ==
    \A t \in Threads : PricedValid(t) =>
        /\ ret[t].k = "ok"
        /\ CallPriceOf(t).k = "fin"
        /\ PutPriceOf(t).k = "fin"
        /\ Abs((PutPriceOf(t).v - CallPriceOf(t).v)
                 - DiscountedStrikeMinusStock(ret[t].params)) <= 2

\* A put in the money has been priced: the put is worth more than the call.
C11_Witness ==
    \E t \in Threads :
        /\ PricedValid(t)
        /\ ret[t].params.option_type = PUT_OPTION
        /\ ret[t].params.stock_price < ret[t].params.strike_price
        /\ PutPriceOf(t).v > CallPriceOf(t).v + Scale
        /\ CallPriceOf(t).v > 0

\* calculate_greeks has returned its list to caller t, the object's
\* parameters being valid.
GreeksReturnedValid(t) ==
    /\ ret[t].method = "calculate_greeks"
    /\ ret[t].k = "ok"
    /\ ~InvalidParameters(ret[t].params)

(***************************************************************************)
(* C12: the gamma and the vega calculate_greeks returns for an object are  *)
(* those it returns for an object just built with the same stock price,    *)
(* strike, time to expiry, rate and volatility and the other option type.  *)
(***************************************************************************)
C12_GammaVegaSideIndependent ==
    \A t \in Threads : GreeksReturnedValid(t) =>
        /\ ret[t].vals[2] = GreeksOf(OtherSide(ret[t].params))[2]
        /\ ret[t].vals[3] = GreeksOf(OtherSide(ret[t].params))[3]

(***************************************************************************)
(* C13: on an object with valid parameters, whatever public methods were   *)
(* called before, calculate_greeks completes and returns the five Greeks:  *)
(* it never reads a d1 or d2 that is not set.                              *)
(***************************************************************************)
C13_GreeksComplete ==
    \A t \in Threads :
        (ret[t].method = "calculate_greeks"
            /\ ~InvalidParameters(ret[t].params)) =>
                /\ ret[t].k = "ok"
                /\ Len(ret[t].vals) = 5

====
